---- MODULE Spec2Model ----
(***************************************************************************)
(* Order-creation workflow of the BookVerse checkout service.              *)
(*                                                                         *)
(* The model follows app/services.py (create_order, upsert_idempotency,    *)
(* stable_request_hash, calculate_totals), app/inventory_client.py         *)
(* (_request, get_inventory, adjust), app/database.py (session_scope) and  *)
(* app/api.py (create_order_endpoint).  Each worker handles one inbound    *)
(* request; a step of a worker is one datastore or upstream round trip     *)
(* together with the local computation that follows it.                    *)
(*                                                                         *)
(* Amounts are integers in thousandths of the currency unit (mills), so    *)
(* that Decimal.quantize(Decimal("0.01")) is a real rounding step.  A unit *)
(* price of a request is a Decimal as parsed: <<digits, decimal places>>,  *)
(* so that Decimal("7.5") and Decimal("7.50") are equal in value and       *)
(* different in str().                                                     *)
(***************************************************************************)
EXTENDS Integers, Sequences, FiniteSets, TLC

\* ---------------------------------------------------------------- bounds
MaxItems == 2
MaxQty == 2
MaxStock == 2
MaxRetry == 1
MaxFaults == 1
MaxDbFaults == 1
\* the executor on its own: retries configured and upstream faults injected
MaxExecRetry == 2
MaxExecFaults == 3

Workers == {"w1", "w2"}
Books == {"book-1", "book-2"}
Users == {"user-1", "user-2"}
\* "" stands for an absent Idempotency-Key header (falsy in create_order)
Keys == {"", "abc"}
\* Decimal("7.50") and Decimal("7.5")
UnitPrices == {<<750, 2>>, <<75, 1>>}

\* product sets the upstream may know: all of them, or all but "book-2"
Catalogues == {Books, Books \ {"book-2"}}

BookRank == [b \in Books |-> IF b = "book-1" THEN 1 ELSE 2]

OrderItemRequest == [bookId : Books, qty : 1..MaxQty, unitPrice : UnitPrices]
ItemLists == UNION {[1..n -> OrderItemRequest] : n \in 0..MaxItems}
CreateOrderRequest == [userId : Users, items : ItemLists]

\* The requests that are sent: the one-decimal spelling of the price is used
\* on lines of one unit of "book-1", and "user-2" sends at most one line.
Requests ==
    {r \in CreateOrderRequest :
        /\ \A i \in 1..Len(r.items) :
              r.items[i].unitPrice[2] # 2
                 => r.items[i].bookId = "book-1" /\ r.items[i].qty = 1
        /\ r.userId = "user-2" => Len(r.items) <= 1}

\* ------------------------------------------------------- pure functions
\* value of a Decimal with at most three decimal places, in mills
Mills(d) == d[1] * (CASE d[2] = 0 -> 1000 [] d[2] = 1 -> 100 [] d[2] = 2 -> 10 [] OTHER -> 1)

RECURSIVE SumSeq(_)
SumSeq(s) == IF s = <<>> THEN 0 ELSE Head(s) + SumSeq(Tail(s))

\* Decimal.quantize(Decimal("0.01")) under the default decimal context
\* (ROUND_HALF_EVEN), on a non-negative amount in mills; result in mills.
quantize(m) ==
    LET cents == m \div 10
        rest == m % 10
    IN  IF rest > 5 \/ (rest = 5 /\ cents % 2 = 1)
        THEN (cents + 1) * 10
        ELSE cents * 10

\* variant: only the first pair is counted
calculate_totals_head(items) ==
    IF items = <<>> THEN 0 ELSE quantize(Mills(items[1][1]) * items[1][2])

calculate_totals(items) ==
    quantize(SumSeq([i \in 1..Len(items) |-> Mills(items[i][1]) * items[i][2]]))

\* sort key of stable_request_hash: (bookId, qty, unitPrice), lexicographic;
\* Decimals compare by value
ItemLess(a, b) ==
    \/ BookRank[a.bookId] < BookRank[b.bookId]
    \/ /\ a.bookId = b.bookId
       /\ \/ a.qty < b.qty
          \/ a.qty = b.qty /\ Mills(a.unitPrice) < Mills(b.unitPrice)

\* sorted() is stable: x, which came before the elements of s, stays before
\* those that compare equal to it
RECURSIVE Insert(_, _)
Insert(x, s) ==
    IF s = <<>> THEN <<x>>
    ELSE IF ItemLess(Head(s), x) THEN <<Head(s)>> \o Insert(x, Tail(s))
    ELSE <<x>> \o s

RECURSIVE sorted(_)
sorted(s) == IF s = <<>> THEN <<>> ELSE Insert(Head(s), sorted(Tail(s)))

\* The normalised string that is hashed: the user, then the sorted lines,
\* each "bookId:qty:unitPrice" with the price as str() spells it.  SHA-256 is
\* taken to be injective.
stable_request_hash(data) == <<data.userId, sorted(data.items)>>

\* variant: a known key is replayed without comparing the fingerprints
upsert_idempotency_nocompare(keys, key, request_hash, new_id) ==
    IF key \notin DOMAIN keys
    THEN [decision |-> "proceed", order_id |-> new_id]
    ELSE [decision |-> "replay", order_id |-> keys[key].order_id]

\* variant: the two outcomes for a known key are exchanged
upsert_idempotency_swapped(keys, key, request_hash, new_id) ==
    IF key \notin DOMAIN keys
    THEN [decision |-> "proceed", order_id |-> new_id]
    ELSE IF keys[key].request_hash # request_hash
         THEN [decision |-> "replay", order_id |-> keys[key].order_id]
         ELSE [decision |-> "conflict", order_id |-> keys[key].order_id]

\* Decision of upsert_idempotency on the idempotency_keys table it reads.
upsert_idempotency(keys, key, request_hash, new_id) ==
    IF key \notin DOMAIN keys
    THEN [decision |-> "proceed", order_id |-> new_id]
    ELSE IF keys[key].request_hash # request_hash
         THEN [decision |-> "conflict", order_id |-> keys[key].order_id]
         ELSE [decision |-> "replay", order_id |-> keys[key].order_id]

\* variant: a failed attempt is retried whatever its number
_request_retry_forever(attempt, outcome, retries) ==
    IF outcome \in {"503", "timeout"} THEN "retry" ELSE "return"

\* variant: the response of the last attempt is returned whatever its status
_request_return_5xx(attempt, outcome, retries) ==
    IF outcome \in {"503", "timeout"} /\ attempt < retries THEN "retry"
    ELSE "return"

\* variant: every answer other than 200 is retried
_request_retry_all(attempt, outcome, retries) ==
    IF outcome # "200"
    THEN IF attempt < retries THEN "retry" ELSE "raise"
    ELSE "return"

\* variant: one attempt more than configured
_request_one_more(attempt, outcome, retries) ==
    IF outcome \in {"503", "timeout"}
    THEN IF attempt <= retries THEN "retry" ELSE "raise"
    ELSE "return"

\* One iteration of the retry loop of InventoryClient._request.
Retryable == {"503", "timeout"}
_request(attempt, outcome, retries) ==
    IF outcome \in Retryable
    THEN IF attempt < retries THEN "retry" ELSE "raise"
    ELSE "return"

\* time.sleep(0.2 * (2 ** attempt)) before the next attempt, in milliseconds
BaseDelayMs == 200
\* variant: the same delay before every retry
backoff_delay_fixed(attempt) == BaseDelayMs

backoff_delay(attempt) == BaseDelayMs * 2^attempt

\* variant: no status is an error
raise_for_status_never(outcome) == FALSE

\* httpx.Response.raise_for_status on the statuses the upstream produces
raise_for_status(outcome) == outcome \in {"400", "404", "409"}

\* variant: a 404 is raised like any other 4xx
get_inventory_strict(outcome) ==
    IF raise_for_status(outcome) THEN "HTTPStatusError" ELSE "json"

\* InventoryClient.get_inventory on the response _request returned: {} for a
\* 404, raise_for_status() otherwise, then the body
get_inventory(outcome) ==
    IF outcome = "404" THEN "empty"
    ELSE IF raise_for_status(outcome) THEN "HTTPStatusError"
    ELSE "json"

\* variant: only an empty shelf counts as a shortfall
ShortfallWhenEmpty(available, qty) == available <= 0

\* pre-check comparison of create_order
Shortfall(available, qty) == available < qty

\* variant: the reservation takes one unit whatever the quantity
ReservationChangeUnit(item) == -1

\* signed quantity change of the reservation and of its reversal
ReservationChange(item) == -item.qty
CompensationChange(item) == item.qty

\* Items that the except-block of create_order adjusts back, in loop order.
CompensationItems(items, reserved) == items

\* variant: every ValueError is reported as a validation error
StatusCodeValueError(etype) ==
    IF etype \in {"validation_error", "idempotency_conflict", "insufficient_stock"}
    THEN 400
    ELSE 502

\* create_order_endpoint: response code for an exception type
StatusCode(etype) ==
    CASE etype = "validation_error" -> 400
      [] etype = "idempotency_conflict" -> 409
      [] etype = "insufficient_stock" -> 409
      [] OTHER -> 502

\* ------------------------------------------------------------------ state
VARIABLES
    stock,             \* upstream inventory: known product -> quantity available
    retry_attempts,    \* ServiceConfig.retry_attempts as loaded by InventoryClient
    fault_budget,      \* upstream faults the environment may inject in all
    nfaults,           \* upstream faults the environment has injected so far
    ndbfaults,         \* datastore faults the environment has injected so far
    orders,            \* committed table orders: id -> row
    order_items,       \* committed table order_items (set of rows)
    idempotency_keys,  \* committed table idempotency_keys: key -> row
    outbox_events,     \* committed table outbox_events (set of rows)
    next_id,           \* source of fresh order ids (uuid4)
    wk,                \* per worker: position in the request and its locals
    calls,             \* per worker: every HTTP attempt made for its request
    pre,               \* per worker: upstream stock when its request arrived
    pairs,             \* argument of a direct call of calculate_totals
    result,            \* what that call returned, NoTotal before it
    http               \* the client's view: the 201 responses per order id
                       \* and the answer to the last GET /orders/{order_id}

vars == <<stock, retry_attempts, fault_budget, nfaults, ndbfaults, orders, order_items, idempotency_keys,
          outbox_events, next_id, wk, calls, pre, pairs, result, http>>

NoTotal == -1
NoGet == [asked |-> 0, code |-> 0, orderId |-> 0, status |-> "NONE", total |-> 0,
          items |-> {}]
NoHttp == [posted |-> <<>>, got |-> NoGet]
NoReq == [userId |-> "", items |-> <<>>]
NoOrder == [id |-> 0, user_id |-> "", status |-> "NONE", total_amount |-> 0]
NoExc == [type |-> "none", site |-> "none"]
NoResult == [code |-> 0, error |-> "none", orderId |-> 0, status |-> "NONE",
             total |-> 0, items |-> {}]

InitWorker ==
    [pc |-> "idle", req |-> NoReq, key |-> "", decision |-> "none",
     order |-> NoOrder, created_items |-> <<>>, loaded_items |-> {},
     key_state |-> "none", outbox |-> {}, tx_failed |-> FALSE,
     failures |-> <<>>, idx |-> 0, attempt |-> 0,
     trigger |-> NoExc, exc |-> NoExc, result |-> NoResult]

Init ==
    /\ stock \in UNION {[K -> 0..MaxStock] : K \in Catalogues}
    /\ retry_attempts \in 0..MaxRetry
    /\ fault_budget = MaxFaults
    /\ nfaults = 0
    /\ ndbfaults = 0
    /\ orders = <<>>
    /\ order_items = {}
    /\ idempotency_keys = <<>>
    /\ outbox_events = {}
    /\ next_id = 1
    /\ wk = [p \in Workers |-> InitWorker]
    /\ calls = [p \in Workers |-> <<>>]
    /\ pre = [p \in Workers |-> <<>>]
    /\ pairs = <<>>
    /\ result = NoTotal
    /\ http = NoHttp

\* ---------------------------------------------------------------- helpers
Exc(type, site) == [type |-> type, site |-> site]

Row(order) == [user_id |-> order.user_id, status |-> order.status,
               total_amount |-> order.total_amount]

FaultBudget == nfaults < fault_budget
DbFaultBudget == ndbfaults < MaxDbFaults

DbFault(out) ==
    ndbfaults' = IF out = "OperationalError" THEN ndbfaults + 1 ELSE ndbfaults

Fault(out, natural) ==
    nfaults' = IF out \in natural THEN nfaults ELSE nfaults + 1

\* what the upstream answers to GET /api/v1/inventory/{book_id}; a read that
\* times out takes the same path through _request as a "503"
QueryNatural(book) == IF book \in DOMAIN stock THEN {"200"} ELSE {"404"}
QueryOutcomes(book) ==
    QueryNatural(book) \cup (IF FaultBudget THEN {"400", "503"} ELSE {})

\* what the upstream answers to POST /api/v1/inventory/adjust: it refuses a
\* change that would make the quantity negative (tests/conftest.py)
AdjustNatural(book, change) ==
    IF book \notin DOMAIN stock THEN {"404"}
    ELSE IF stock[book] + change < 0 THEN {"409"}
    ELSE {"200"}
AdjustOutcomes(book, change) ==
    AdjustNatural(book, change) \cup
    (IF FaultBudget
     THEN {"400", "503"} \cup
          (IF "200" \in AdjustNatural(book, change) THEN {"timeout"} ELSE {})
     ELSE {})

\* a timed-out adjustment is one the upstream applied without the client
\* seeing the answer; a failure that left the quantity alone is a "503"
Applied(out) == out \in {"200", "timeout"}

UpstreamAdjust(book, change, out) ==
    stock' = IF Applied(out) THEN [stock EXCEPT ![book] = @ + change] ELSE stock

\* the notes argument of inv.adjust: f"order:{order.id}" for a reservation,
\* f"compensate:{order.id}" for a compensation; a query carries none
AuditNote(op, order) ==
    CASE op = "reserve" -> <<"order", order.id>>
      [] op = "compensate" -> <<"compensate", order.id>>
      [] OTHER -> <<>>

Logged(p, op, out, change) ==
    calls' = [calls EXCEPT ![p] = Append(@,
                [op |-> op, idx |-> wk[p].idx, attempt |-> wk[p].attempt,
                 outcome |-> out, change |-> change,
                 notes |-> AuditNote(op, wk[p].order),
                 sleep |-> IF _request(wk[p].attempt, out, retry_attempts) = "retry"
                           THEN backoff_delay(wk[p].attempt)
                           ELSE 0])]

\* variant: an uncommitted insert of a key does not lock the key
KeyNeverHeld(p) == FALSE

\* another open transaction holds an uncommitted insert of the same key
KeyHeldByOther(p) ==
    \E q \in Workers \ {p} :
        /\ wk[q].key = wk[p].key
        /\ wk[q].key_state = "flushed"
        /\ ~wk[q].tx_failed
        /\ wk[q].pc # "done"

\* outcomes of Session.flush for worker p's pending rows
FlushOutcomes(p) ==
    IF wk[p].tx_failed THEN {"PendingRollbackError"}
    ELSE IF wk[p].key_state = "pending" /\ wk[p].key \in DOMAIN idempotency_keys
    THEN {"IntegrityError"}
    ELSE {"ok"} \cup (IF DbFaultBudget THEN {"OperationalError"} ELSE {})

\* ---------------------------------------------------------------- actions
\* create_order_endpoint opens a session and create_order runs up to the
\* item validation: fingerprint, idempotency arbitration, order row.
Start(p, r, k) ==
    /\ wk[p].pc = "idle"
    /\ p = "w2" => wk["w1"].pc # "idle"
    /\ LET d == IF k # ""
                THEN upsert_idempotency(idempotency_keys, k,
                                        stable_request_hash(r), next_id)
                ELSE [decision |-> "none", order_id |-> next_id]
           fresh == d.decision \in {"none", "proceed"}
           order == CASE d.decision = "proceed" ->
                           [id |-> next_id, user_id |-> "", status |-> "PENDING",
                            total_amount |-> 0]
                      [] d.decision = "none" ->
                           [id |-> next_id, user_id |-> r.userId,
                            status |-> "PENDING", total_amount |-> 0]
                      [] d.decision = "replay" ->
                           [id |-> d.order_id,
                            user_id |-> orders[d.order_id].user_id,
                            status |-> orders[d.order_id].status,
                            total_amount |-> orders[d.order_id].total_amount]
                      [] OTHER -> NoOrder
           raised == CASE d.decision = "conflict" ->
                            Exc("idempotency_conflict", "idempotency")
                       [] fresh /\ r.items = <<>> ->
                            Exc("validation_error", "validate")
                       [] OTHER -> NoExc
       IN  /\ wk' = [wk EXCEPT ![p] =
                  [InitWorker EXCEPT
                     !.pc = IF raised # NoExc THEN "raised"
                            ELSE IF d.decision = "replay" THEN "returned"
                            ELSE "precheck",
                     !.req = r, !.key = k, !.decision = d.decision,
                     !.order = order,
                     !.loaded_items = IF d.decision = "replay"
                                      THEN {it \in order_items : it.order_id = d.order_id}
                                      ELSE {},
                     !.key_state = IF d.decision = "proceed" THEN "pending" ELSE "none",
                     !.idx = 1, !.exc = raised]]
           /\ next_id' = IF fresh THEN next_id + 1 ELSE next_id
    /\ pre' = [pre EXCEPT ![p] = stock]
    /\ UNCHANGED <<stock, retry_attempts, fault_budget, pairs, result, http, nfaults, ndbfaults, orders, order_items,
                   idempotency_keys, outbox_events, calls>>

\* Entry into the except-block of create_order with the failure that caused it.
EnterExcept(w, e) ==
    IF CompensationItems(w.req.items, w.created_items) = <<>>
    THEN [w EXCEPT !.pc = "cancel", !.trigger = e, !.exc = e]
    ELSE [w EXCEPT !.pc = "compensate", !.idx = 1, !.attempt = 0,
                   !.trigger = e, !.exc = e]

\* variant: the pre-check runs inside the try-block
RaiseInsideTry(w, e) == EnterExcept(w, e)

\* An exception raised before the try-block leaves create_order at once.
RaiseOutsideTry(w, e) == [w EXCEPT !.pc = "raised", !.exc = e]

\* variant: a product without inventory data counts as having one unit
quantity_available_one(s, book) == IF book \in DOMAIN s THEN s[book] ELSE 1

\* (get_inventory(...) or {}).get("inventory", {}).get("quantity_available", 0)
\* when the upstream holds the quantities s: 0 for a product it does not know
quantity_available(s, book) == IF book \in DOMAIN s THEN s[book] ELSE 0

\* variant: the pre-check stops at the first shortfall
PreCheckFailFast(idx, n, failures) == idx = n \/ failures # <<>>

\* The pre-check loop ends after the last item, whatever it has found.
PreCheckDone(idx, n, failures) == idx = n

\* One HTTP attempt of inv.get_inventory for item idx of the pre-check loop.
PreCheck(p, out) ==
    /\ wk[p].pc = "precheck"
    /\ LET w == wk[p]
           n == Len(w.req.items)
           item == w.req.items[w.idx]
           step == _request(w.attempt, out, retry_attempts)
           available == IF out \in {"200", "404"}
                        THEN quantity_available(stock, item.bookId)
                        ELSE 0
           failures == IF Shortfall(available, item.qty)
                       THEN Append(w.failures, [bookId |-> item.bookId,
                                                available |-> available,
                                                requested |-> item.qty])
                       ELSE w.failures
       IN  /\ out \in QueryOutcomes(item.bookId)
           /\ Fault(out, QueryNatural(item.bookId))
           /\ Logged(p, "get_inventory", out, 0)
           /\ wk' = [wk EXCEPT ![p] =
                CASE step = "retry" -> [w EXCEPT !.attempt = @ + 1]
                  [] step = "raise" ->
                       RaiseOutsideTry(w, Exc("InventoryError", "precheck"))
                  [] step = "return" /\ get_inventory(out) = "HTTPStatusError" ->
                       RaiseOutsideTry(w, Exc("HTTPStatusError", "precheck"))
                  [] OTHER ->
                       IF ~PreCheckDone(w.idx, n, failures)
                       THEN [w EXCEPT !.failures = failures, !.idx = @ + 1,
                                      !.attempt = 0]
                       ELSE IF failures # <<>>
                       THEN RaiseOutsideTry([w EXCEPT !.failures = failures],
                                            Exc("insufficient_stock", "precheck"))
                       ELSE [w EXCEPT !.pc = "reserve", !.idx = 1, !.attempt = 0]]
    /\ UNCHANGED <<stock, retry_attempts, fault_budget, pairs, result, http, ndbfaults, orders, order_items,
                   idempotency_keys, outbox_events, next_id, pre>>

\* One HTTP attempt of inv.adjust(bookId, -qty, "order:<id>") for item idx.
Reserve(p, out) ==
    /\ wk[p].pc = "reserve"
    /\ LET w == wk[p]
           n == Len(w.req.items)
           item == w.req.items[w.idx]
           step == _request(w.attempt, out, retry_attempts)
           oi == [order_id |-> w.order.id, line |-> w.idx,
                  book_id |-> item.bookId, quantity |-> item.qty,
                  unit_price |-> Mills(item.unitPrice),
                  line_total |-> quantize(Mills(item.unitPrice) * item.qty)]
           change == ReservationChange(item)
       IN  /\ out \in AdjustOutcomes(item.bookId, change)
           /\ Fault(out, AdjustNatural(item.bookId, change))
           /\ UpstreamAdjust(item.bookId, change, out)
           /\ Logged(p, "reserve", out, change)
           /\ wk' = [wk EXCEPT ![p] =
                CASE step = "retry" -> [w EXCEPT !.attempt = @ + 1]
                  [] step = "raise" ->
                       EnterExcept(w, Exc("InventoryError", "reserve"))
                  [] step = "return" /\ raise_for_status(out) ->
                       EnterExcept(w, Exc("HTTPStatusError", "reserve"))
                  [] OTHER ->
                       [w EXCEPT !.created_items = Append(@, oi),
                                 !.idx = IF w.idx < n THEN w.idx + 1 ELSE 1,
                                 !.attempt = 0,
                                 !.pc = IF w.idx < n THEN "reserve" ELSE "finalize"]]
    /\ UNCHANGED <<retry_attempts, fault_budget, pairs, result, http, ndbfaults, orders, order_items,
                   idempotency_keys, outbox_events, next_id, pre>>

\* Totals, status CONFIRMED, session.flush(), outbox event, return.
Finalize(p, out) ==
    /\ wk[p].pc = "finalize"
    /\ ~(wk[p].key_state = "pending" /\ KeyHeldByOther(p))
    /\ out \in FlushOutcomes(p)
    /\ DbFault(out)
    /\ LET w == wk[p]
           total == calculate_totals([i \in 1..Len(w.req.items) |->
                        <<w.req.items[i].unitPrice, w.req.items[i].qty>>])
           confirmed == [w.order EXCEPT !.user_id = w.req.userId,
                                        !.total_amount = total,
                                        !.status = "CONFIRMED"]
           event == [id |-> 0, type |-> "order.created", orderId |-> w.order.id,
                     userId |-> w.req.userId, total |-> total,
                     items |-> [i \in 1..Len(w.req.items) |->
                                  [bookId |-> w.req.items[i].bookId,
                                   qty |-> w.req.items[i].qty]]]
       IN  wk' = [wk EXCEPT ![p] =
                IF out = "ok"
                THEN [w EXCEPT !.order = confirmed,
                               !.key_state = IF @ = "pending" THEN "flushed" ELSE @,
                               !.outbox = {event},
                               !.pc = "returned"]
                ELSE EnterExcept([w EXCEPT !.order = confirmed, !.tx_failed = TRUE],
                                 Exc(out, "flush"))]
    /\ UNCHANGED <<stock, retry_attempts, fault_budget, pairs, result, http, nfaults, orders, order_items,
                   idempotency_keys, outbox_events, next_id, calls, pre>>

\* One HTTP attempt of inv.adjust(bookId, +qty, "compensate:<id>") in the
\* except-block; InventoryError is swallowed, anything else propagates.
Compensate(p, out) ==
    /\ wk[p].pc = "compensate"
    /\ LET w == wk[p]
           todo == CompensationItems(w.req.items, w.created_items)
           n == Len(todo)
           it == todo[w.idx]
           step == _request(w.attempt, out, retry_attempts)
           next == IF w.idx < n
                   THEN [w EXCEPT !.idx = @ + 1, !.attempt = 0]
                   ELSE [w EXCEPT !.pc = "cancel", !.attempt = 0]
           change == CompensationChange(it)
       IN  /\ out \in AdjustOutcomes(it.bookId, change)
           /\ Fault(out, AdjustNatural(it.bookId, change))
           /\ UpstreamAdjust(it.bookId, change, out)
           /\ Logged(p, "compensate", out, change)
           /\ wk' = [wk EXCEPT ![p] =
                CASE step = "retry" -> [w EXCEPT !.attempt = @ + 1]
                  [] step = "raise" -> next
                  [] step = "return" /\ raise_for_status(out) ->
                       [w EXCEPT !.pc = "raised",
                                 !.exc = Exc("HTTPStatusError", "compensate")]
                  [] OTHER -> next]
    /\ UNCHANGED <<retry_attempts, fault_budget, pairs, result, http, ndbfaults, orders, order_items,
                   idempotency_keys, outbox_events, next_id, pre>>

\* order.status = "CANCELLED"; session.flush(); raise
Cancel(p, out) ==
    /\ wk[p].pc = "cancel"
    /\ ~(wk[p].key_state = "pending" /\ ~wk[p].tx_failed /\ KeyHeldByOther(p))
    /\ out \in FlushOutcomes(p)
    /\ DbFault(out)
    /\ LET w == wk[p]
           cancelled == [w.order EXCEPT !.status = "CANCELLED"]
       IN  wk' = [wk EXCEPT ![p] =
                IF out = "ok"
                THEN [w EXCEPT !.order = cancelled,
                               !.key_state = IF @ = "pending" THEN "flushed" ELSE @,
                               !.pc = "raised"]
                ELSE [w EXCEPT !.order = cancelled, !.tx_failed = TRUE,
                               !.exc = Exc(out, "cancel"), !.pc = "raised"]]
    /\ UNCHANGED <<stock, retry_attempts, fault_budget, pairs, result, http, nfaults, orders, order_items,
                   idempotency_keys, outbox_events, next_id, calls, pre>>

\* variant: the pending outbox events are not written
OutboxRowsNone(pending, table) == {}

\* the rows the commit inserts for the pending OutboxEvent objects of the
\* session; the id (a uuid) is generated at the insert
OutboxRows(pending, table) ==
    {[e EXCEPT !.id = Cardinality(table) + 1] : e \in pending}

\* _to_response(order, items)
_to_response(order, items) ==
    [code |-> 201, error |-> "none", orderId |-> order.id,
     status |-> order.status, total |-> order.total_amount, items |-> items]

\* session_scope after create_order returned: commit, then the 201 response;
\* a failing commit is rolled back and reported by the endpoint.
Commit(p, out) ==
    /\ wk[p].pc = "returned"
    /\ out \in {"ok"} \cup (IF DbFaultBudget THEN {"OperationalError"} ELSE {})
    /\ DbFault(out)
    /\ LET w == wk[p]
           wrote == w.decision # "replay"
           items == IF wrote
                    THEN {w.created_items[i] : i \in 1..Len(w.created_items)}
                    ELSE w.loaded_items
       IN  IF out = "ok"
           THEN /\ orders' = IF wrote
                             THEN [i \in DOMAIN orders \cup {w.order.id} |->
                                     IF i = w.order.id THEN Row(w.order) ELSE orders[i]]
                             ELSE orders
                /\ order_items' = IF wrote THEN order_items \cup items ELSE order_items
                /\ idempotency_keys' =
                     IF w.key_state = "flushed"
                     THEN [k \in DOMAIN idempotency_keys \cup {w.key} |->
                             IF k = w.key
                             THEN [order_id |-> w.order.id,
                                   request_hash |-> stable_request_hash(w.req)]
                             ELSE idempotency_keys[k]]
                     ELSE idempotency_keys
                /\ outbox_events' = outbox_events \cup OutboxRows(w.outbox, outbox_events)
                /\ wk' = [wk EXCEPT ![p] =
                            [w EXCEPT !.pc = "done",
                                      !.result = _to_response(w.order, items)]]
                /\ http' = [http EXCEPT !.posted =
                              [i \in DOMAIN @ \cup {w.order.id} |->
                                 IF i = w.order.id
                                 THEN _to_response(w.order, items)
                                 ELSE @[i]]]
           ELSE /\ wk' = [wk EXCEPT ![p] =
                            [w EXCEPT !.pc = "done", !.tx_failed = TRUE,
                                      !.exc = Exc(out, "commit"),
                                      !.result = [NoResult EXCEPT
                                                    !.code = StatusCode(out),
                                                    !.error = out]]]
                /\ UNCHANGED <<orders, order_items, idempotency_keys, outbox_events,
                               http>>
    /\ UNCHANGED <<stock, retry_attempts, fault_budget, pairs, result, nfaults, next_id, calls, pre>>

\* variant: the rows the session has flushed stay in the table
RolledBackKept(table, order) ==
    IF order = NoOrder \/ order.id \in DOMAIN table THEN table
    ELSE [i \in DOMAIN table \cup {order.id} |->
            IF i = order.id THEN Row(order) ELSE table[i]]

\* table orders after session.rollback(): the rows the session inserted and
\* flushed are gone with the transaction
RolledBack(table, order) == table

\* session_scope after create_order raised: rollback, then the error response
Rollback(p) ==
    /\ wk[p].pc = "raised"
    /\ orders' = RolledBack(orders, wk[p].order)
    /\ wk' = [wk EXCEPT ![p] =
                [@ EXCEPT !.pc = "done",
                          !.result = [NoResult EXCEPT
                                        !.code = StatusCode(wk[p].exc.type),
                                        !.error = wk[p].exc.type]]]
    /\ UNCHANGED <<stock, retry_attempts, fault_budget, pairs, result, http, nfaults, ndbfaults, order_items,
                   idempotency_keys, outbox_events, next_id, calls, pre>>

\* session_scope, finally: session.close(); the worker's locals are gone
Close(p) ==
    /\ wk[p].pc = "done"
    /\ wk' = [wk EXCEPT ![p] = [InitWorker EXCEPT !.pc = "closed"]]
    /\ calls' = [calls EXCEPT ![p] = <<>>]
    /\ pre' = [pre EXCEPT ![p] = <<>>]
    /\ UNCHANGED <<stock, retry_attempts, fault_budget, pairs, result, http, nfaults, ndbfaults, orders, order_items,
                   idempotency_keys, outbox_events, next_id>>

HttpOutcomes == {"200", "400", "404", "409", "503", "timeout"}
DbOutcomes == {"ok", "IntegrityError", "OperationalError", "PendingRollbackError"}

\* the steps of a request that has arrived
Step(p) ==
    \/ \E out \in HttpOutcomes : PreCheck(p, out)
    \/ \E out \in HttpOutcomes : Reserve(p, out)
    \/ \E out \in DbOutcomes : Finalize(p, out)
    \/ \E out \in HttpOutcomes : Compensate(p, out)
    \/ \E out \in DbOutcomes : Cancel(p, out)
    \/ \E out \in DbOutcomes : Commit(p, out)
    \/ Rollback(p)
    \/ Close(p)

\* requests arrive one after the other
Quiet(p) == \A q \in Workers \ {p} : wk[q].pc \in {"idle", "closed"}

Arrive(p) ==
    /\ wk[p].pc = "idle"
    /\ Quiet(p)
    /\ \E r \in Requests, k \in Keys : Start(p, r, k)

Next ==
    \/ \E p \in Workers : Arrive(p)
    \/ \E p \in Workers : Step(p)

Spec == Init /\ [][Next]_vars

\* requests overlap: one task per inbound request, any interleaving of their
\* round trips; single-line orders of one customer
ConcRequests ==
    {r \in Requests : /\ Len(r.items) = 1 /\ r.userId = "user-1"
                      /\ r.items[1].unitPrice[2] = 2}

ArriveConc(p) ==
    /\ wk[p].pc = "idle"
    /\ \E r \in ConcRequests, k \in Keys : Start(p, r, k)

NextConc ==
    \/ \E p \in Workers : ArriveConc(p)
    \/ \E p \in Workers : Step(p)

SpecConc == Init /\ [][NextConc]_vars

\* the inventory client under a failing upstream: one request of one line,
\* more retries configured and more faults than in the other specifications
ExecRequests ==
    {r \in Requests : /\ Len(r.items) = 1 /\ r.userId = "user-1"
                      /\ r.items[1].qty = 1 /\ r.items[1].unitPrice[2] = 2}

InitExec ==
    /\ stock \in UNION {[K -> 0..MaxStock] : K \in Catalogues}
    /\ retry_attempts \in 0..MaxExecRetry
    /\ fault_budget = MaxExecFaults
    /\ nfaults = 0
    /\ ndbfaults = 0
    /\ orders = <<>>
    /\ order_items = {}
    /\ idempotency_keys = <<>>
    /\ outbox_events = {}
    /\ next_id = 1
    /\ wk = [p \in Workers |-> InitWorker]
    /\ calls = [p \in Workers |-> <<>>]
    /\ pre = [p \in Workers |-> <<>>]
    /\ pairs = <<>>
    /\ result = NoTotal
    /\ http = NoHttp

ArriveExec ==
    /\ wk["w1"].pc = "idle"
    /\ \E r \in ExecRequests : Start("w1", r, "")

NextExec ==
    \/ ArriveExec
    \/ Step("w1")

SpecExec == InitExec /\ [][NextExec]_vars

\* variant: an order is found whether it is there or not
FoundAlways(table, order_id) == TRUE

\* session.get(Order, order_id) on the committed table
Found(table, order_id) == order_id \in DOMAIN table

\* GET /orders/{order_id}: 404 when session.get finds no order, else the
\* order and its items through _to_response, with status 200
get_order(order_id) ==
    /\ http' = [http EXCEPT !.got =
         IF Found(orders, order_id) /\ order_id \in DOMAIN orders
         THEN LET row == orders[order_id]
                  order == [id |-> order_id, user_id |-> row.user_id,
                            status |-> row.status,
                            total_amount |-> row.total_amount]
                  r == _to_response(order,
                         {it \in order_items : it.order_id = order_id})
              IN  [asked |-> order_id, code |-> 200, orderId |-> r.orderId,
                   status |-> r.status, total |-> r.total, items |-> r.items]
         ELSE IF Found(orders, order_id)
         THEN [NoGet EXCEPT !.asked = order_id, !.code = 200]
         ELSE [NoGet EXCEPT !.asked = order_id, !.code = 404]]
    /\ UNCHANGED <<stock, retry_attempts, fault_budget, pairs, result, nfaults,
                   ndbfaults, orders, order_items, idempotency_keys,
                   outbox_events, next_id, wk, calls, pre>>

\* orders are placed one after the other over a healthy upstream and looked
\* up at any time
MaxGetId == 3

InitGet ==
    /\ stock \in UNION {[K -> 0..MaxStock] : K \in Catalogues}
    /\ retry_attempts = 0
    /\ fault_budget = 0
    /\ nfaults = 0
    /\ ndbfaults = 0
    /\ orders = <<>>
    /\ order_items = {}
    /\ idempotency_keys = <<>>
    /\ outbox_events = {}
    /\ next_id = 1
    /\ wk = [p \in Workers |-> InitWorker]
    /\ calls = [p \in Workers |-> <<>>]
    /\ pre = [p \in Workers |-> <<>>]
    /\ pairs = <<>>
    /\ result = NoTotal
    /\ http = NoHttp

NextGet ==
    \/ \E p \in Workers : Arrive(p)
    \/ \E p \in Workers : Step(p)
    \/ \E id \in 1..MaxGetId : get_order(id)

SpecGet == InitGet /\ [][NextGet]_vars

\* a client sends a request with a key and, once it has its answer, a second
\* one with the same key; the first worker keeps what it ended with
RetryRequests ==
    {r \in Requests : /\ Len(r.items) = 1 /\ r.userId = "user-1"
                      /\ r.items[1].unitPrice[2] = 2}

ArriveRetry(p) ==
    /\ wk[p].pc = "idle"
    /\ \A q \in Workers \ {p} : wk[q].pc \in {"idle", "done"}
    /\ \E r \in RetryRequests : Start(p, r, "abc")

NextRetry ==
    \/ \E p \in Workers : ArriveRetry(p)
    \/ \E p \in Workers : Step(p)

SpecRetry == Init /\ [][NextRetry]_vars

\* one order of one or two lines over a failing upstream; create_order is
\* synchronous code that keeps running: every attempt ends, in a response, an
\* error or the client's timeout, and every sleep is finite
TermRequests ==
    {r \in Requests : /\ r.items # <<>> /\ r.userId = "user-1"
                      /\ \A i \in 1..Len(r.items) : r.items[i].unitPrice[2] = 2}

ArriveTerm ==
    /\ wk["w1"].pc = "idle"
    /\ \E r \in TermRequests : Start("w1", r, "")

NextTerm ==
    \/ ArriveTerm
    \/ Step("w1")

SpecTerm == InitExec /\ [][NextTerm]_vars /\ WF_vars(Step("w1"))

\* calculate_totals called on its own, on prices given in thousandths
MaxPairs == 2
MillPrices == {<<5, 3>>, <<15, 3>>, <<25, 3>>, <<1005, 3>>, <<125, 2>>, <<10, 3>>}
PricedPairs == MillPrices \X (1..MaxQty)

InitTotals ==
    /\ stock \in [{"book-1"} -> {0}]
    /\ retry_attempts = 0
    /\ fault_budget = 0
    /\ nfaults = 0
    /\ ndbfaults = 0
    /\ orders = <<>>
    /\ order_items = {}
    /\ idempotency_keys = <<>>
    /\ outbox_events = {}
    /\ next_id = 1
    /\ wk = [p \in Workers |-> InitWorker]
    /\ calls = [p \in Workers |-> <<>>]
    /\ pre = [p \in Workers |-> <<>>]
    /\ pairs \in UNION {[1..n -> PricedPairs] : n \in 0..MaxPairs}
    /\ result = NoTotal
    /\ http = NoHttp

Compute ==
    /\ result = NoTotal
    /\ result' = calculate_totals(pairs)
    /\ UNCHANGED <<stock, retry_attempts, fault_budget, nfaults, ndbfaults, orders,
                   order_items, idempotency_keys, outbox_events, next_id, wk,
                   calls, pre, pairs, http>>

NextTotals == Compute

SpecTotals == InitTotals /\ [][NextTotals]_vars

TypeOK ==
    /\ nfaults \in 0..fault_budget
    /\ ndbfaults \in 0..MaxDbFaults
    /\ \A p \in Workers : wk[p].pc \in
         {"idle", "precheck", "reserve", "finalize", "compensate", "cancel",
          "returned", "raised", "done", "closed"}

\* ------------------------------------------------------------ properties
Exited(p) == wk[p].pc \in {"returned", "raised", "done"}
NewOrder(p) == wk[p].decision \in {"none", "proceed"}
NoFaultsYet == nfaults = 0 /\ ndbfaults = 0
Lines(p) == 1..Len(wk[p].req.items)
Available(s, b) == IF b \in DOMAIN s THEN s[b] ELSE 0
Demand(items, b) ==
    SumSeq([i \in 1..Len(items) |-> IF items[i].bookId = b THEN items[i].qty ELSE 0])
CallsOf(p, op) == SelectSeq(calls[p], LAMBDA c : c.op = op)
Shared == <<stock, orders, order_items, idempotency_keys, outbox_events, next_id>>

\* the request ended CONFIRMED, every line reserved once, nothing given back
HappyOutcome(p) ==
    /\ wk[p].pc # "raised"
    /\ wk[p].order.status = "CONFIRMED"
    /\ wk[p].pc = "done" =>
          /\ wk[p].result.code = 201
          /\ wk[p].result.status = "CONFIRMED"
          /\ wk[p].order.id \in DOMAIN orders
          /\ orders[wk[p].order.id].status = "CONFIRMED"
    /\ \A b \in DOMAIN stock :
          stock[b] = pre[p][b] - Demand(wk[p].req.items, b)
    /\ CallsOf(p, "compensate") = <<>>
    /\ LET rs == CallsOf(p, "reserve")
       IN  /\ Len(rs) = Len(wk[p].req.items)
           /\ \A i \in Lines(p) :
                 /\ rs[i].idx = i
                 /\ rs[i].change = -wk[p].req.items[i].qty
                 /\ rs[i].outcome = "200"

C2_AllOrNothing ==
    \A p \in Workers :
        ( /\ wk[p].pc \notin {"idle", "closed"} /\ NewOrder(p)
          /\ \E i \in Lines(p) :
                wk[p].req.items[i].qty
                    > Available(pre[p], wk[p].req.items[i].bookId) )
        => /\ CallsOf(p, "reserve") = <<>>
           /\ CallsOf(p, "compensate") = <<>>
           /\ stock = pre[p]
           /\ wk[p].pc \in {"precheck", "raised", "done"}
           /\ wk[p].trigger = NoExc
           /\ (wk[p].pc # "precheck" /\ nfaults = 0)
                 => wk[p].exc.type = "insufficient_stock"
           /\ wk[p].pc # "precheck"
                 => wk[p].exc.type \in
                      {"insufficient_stock", "InventoryError", "HTTPStatusError"}

C2_Witness ==
    \E p \in Workers :
        /\ wk[p].pc = "raised" /\ wk[p].exc.type = "insufficient_stock"
        /\ Len(wk[p].req.items) = 2 /\ Len(wk[p].failures) = 1
        /\ wk[p].failures[1].bookId = wk[p].req.items[2].bookId
        /\ wk[p].req.items[1].qty
             <= Available(pre[p], wk[p].req.items[1].bookId)
        /\ stock = pre[p]

\* the record of key k was bound by a request of the same user with the same
\* lines as r, each spelled the same, in some order, and its order is CONFIRMED
SameAsStored(k, r) ==
    /\ k # ""
    /\ k \in DOMAIN idempotency_keys
    /\ LET o == idempotency_keys[k].order_id
           h == idempotency_keys[k].request_hash
       IN  /\ o \in DOMAIN orders
           /\ orders[o].status = "CONFIRMED"
           /\ orders[o].user_id = r.userId
           /\ h[1] = r.userId
           /\ \A t \in OrderItemRequest :
                 Cardinality({i \in 1..Len(r.items) : r.items[i] = t})
                   = Cardinality({i \in 1..Len(h[2]) : h[2][i] = t})

Arrives(p) == wk[p].pc = "idle" /\ wk'[p].pc # "idle"

\* C3 as stated: sequential replay.  A request that arrives with a key whose
\* committed order came from the same user and the same multiset of lines,
\* in any order, is answered with that order, unchanged: no inventory call,
\* no new order row, order item, idempotency record or outbox record, and
\* the stock is not touched.
C3_Claim ==
    [][\A p \in Workers :
         /\ (Arrives(p) /\ SameAsStored(wk'[p].key, wk'[p].req)) =>
               /\ wk'[p].decision = "replay"
               /\ wk'[p].pc = "returned"
               /\ wk'[p].order.id = idempotency_keys[wk'[p].key].order_id
               /\ Row(wk'[p].order) = orders[wk'[p].order.id]
               /\ wk'[p].loaded_items =
                     {row \in order_items : row.order_id = wk'[p].order.id}
               /\ wk'[p].key_state = "none"
               /\ wk'[p].created_items = <<>>
               /\ wk'[p].outbox = {}
               /\ calls'[p] = <<>>
               /\ UNCHANGED Shared
         /\ (wk[p].decision = "replay" /\ wk'[p].pc # wk[p].pc) =>
               /\ calls'[p] = <<>>
               /\ UNCHANGED Shared
               /\ (wk'[p].pc = "done" /\ ndbfaults' = ndbfaults) =>
                     /\ wk'[p].result.code = 201
                     /\ wk'[p].result.orderId = wk[p].order.id
                     /\ wk'[p].result.status = orders[wk[p].order.id].status
                     /\ wk'[p].result.total = orders[wk[p].order.id].total_amount
                     /\ wk'[p].result.items = wk[p].loaded_items
      ]_vars

\* C4: conflict has no side effects.  A request that arrives with a key whose
\* record holds another fingerprint (another user, other lines) fails with the
\* idempotency-conflict error before any inventory call and before any write:
\* stock, orders, order items, idempotency records and outbox are unchanged.
C4_Conflict ==
    [][\A p \in Workers :
         /\ ( /\ Arrives(p)
              /\ wk'[p].key # ""
              /\ wk'[p].key \in DOMAIN idempotency_keys
              /\ idempotency_keys[wk'[p].key].request_hash
                    # stable_request_hash(wk'[p].req) ) =>
               /\ wk'[p].decision = "conflict"
               /\ wk'[p].pc = "raised"
               /\ wk'[p].exc.type = "idempotency_conflict"
               /\ wk'[p].order = NoOrder
               /\ wk'[p].key_state = "none"
               /\ wk'[p].created_items = <<>>
               /\ wk'[p].outbox = {}
               /\ calls'[p] = <<>>
               /\ UNCHANGED Shared
         /\ (wk[p].decision = "conflict" /\ wk'[p].pc # wk[p].pc) =>
               /\ calls'[p] = <<>>
               /\ UNCHANGED Shared
               /\ wk'[p].pc = "done" =>
                     /\ wk'[p].result.code = 409
                     /\ wk'[p].result.error = "idempotency_conflict"
      ]_vars

C4_Witness ==
    \E p \in Workers :
        /\ wk[p].pc = "done" /\ wk[p].decision = "conflict"
        /\ wk[p].result.code = 409
        /\ orders[idempotency_keys[wk[p].key].order_id].user_id # wk[p].req.userId
        /\ stock = pre[p]

CompensationsOk(p) ==
    \A j \in 1..Len(calls[p]) :
        calls[p][j].op = "compensate" => calls[p][j].outcome = "200"

\* C5 as stated: when the reservation of a line fails after earlier lines were
\* reserved and every compensating adjust succeeds, the stock of the product
\* of each earlier line is back at its level before the request.
C5_Claim ==
    \A p \in Workers :
        (wk[p].pc = "raised" /\ wk[p].trigger.site = "reserve" /\ CompensationsOk(p))
        => \A i \in 1..Len(wk[p].created_items) :
              stock[wk[p].req.items[i].bookId] = pre[p][wk[p].req.items[i].bookId]

\* C6 as stated: a compensating adjust is issued only for lines whose
\* reservation succeeded in this request, so no product ends above its
\* level before the request.
C6_Claim ==
    \A p \in Workers :
        /\ \A j \in 1..Len(calls[p]) :
              calls[p][j].op = "compensate"
                 => calls[p][j].idx <= Len(wk[p].created_items)
        /\ (wk[p].pc = "raised" /\ wk[p].trigger # NoExc)
              => \A b \in DOMAIN stock : stock[b] <= pre[p][b]

\* C7 as stated: after a failure that follows at least one reservation, once
\* the request has completed the datastore holds the order row, CANCELLED.
C7_Claim ==
    \A p \in Workers :
        ( /\ wk[p].pc = "done" /\ wk[p].trigger # NoExc
          /\ wk[p].created_items # <<>>
          /\ wk[p].order.status = "CANCELLED" /\ ~wk[p].tx_failed )
        => /\ wk[p].order.id \in DOMAIN orders
           /\ orders[wk[p].order.id].status = "CANCELLED"

\* C8 as stated: whatever the failure of one compensating adjust, a
\* compensating adjust is still attempted for every line that was reserved.
C8_Claim ==
    \A p \in Workers :
        (wk[p].pc \in {"raised", "done"} /\ wk[p].trigger # NoExc)
        => \A i \in 1..Len(wk[p].created_items) :
              \E j \in 1..Len(calls[p]) :
                  calls[p][j].op = "compensate" /\ calls[p][j].idx = i

\* C9 as stated: the error create_order raises after compensation is the
\* failure that triggered the compensation.
C9_Claim ==
    \A p \in Workers :
        (wk[p].pc \in {"raised", "done"} /\ wk[p].trigger # NoExc)
        => wk[p].exc = wk[p].trigger

\* C10 as stated: a request whose insert of the idempotency record is rejected
\* as a uniqueness violation ends as a replay of the winner's order or as a
\* conflict, the upstream being healthy; the violation is not a failure of
\* the request.
C10_Claim ==
    \A p \in Workers :
        ( /\ wk[p].pc = "done"
          /\ wk[p].trigger = Exc("IntegrityError", "flush")
          /\ nfaults = 0 )
        => \/ /\ wk[p].result.code = 201
              /\ wk[p].key \in DOMAIN idempotency_keys
              /\ wk[p].result.orderId = idempotency_keys[wk[p].key].order_id
           \/ wk[p].result.error = "idempotency_conflict"

\* C11 as stated: two requests with the same idempotency key and the same
\* payload, in any interleaving, with a healthy upstream and datastore and
\* enough stock for the order: once both have completed, the stock of the
\* requested product is down by the requested quantity exactly once and
\* exactly one order, CONFIRMED, is bound to the key.
C11_Claim ==
    ( /\ wk["w1"].pc = "done" /\ wk["w2"].pc = "done"
      /\ wk["w1"].key # "" /\ wk["w2"].key = wk["w1"].key
      /\ wk["w2"].req = wk["w1"].req
      /\ Len(wk["w1"].req.items) = 1
      /\ NoFaultsYet
      /\ wk["w1"].req.items[1].qty
           <= Available(pre["w1"], wk["w1"].req.items[1].bookId) )
    => LET k == wk["w1"].key
           item == wk["w1"].req.items[1]
       IN  /\ stock[item.bookId] = pre["w1"][item.bookId] - item.qty
           /\ k \in DOMAIN idempotency_keys
           /\ idempotency_keys[k].order_id \in DOMAIN orders
           /\ orders[idempotency_keys[k].order_id].status = "CONFIRMED"
           /\ Cardinality(DOMAIN orders) = 1

Tables == <<orders, order_items, idempotency_keys, outbox_events>>

\* C12: the three-way decision of upsert_idempotency.  For a request that
\* arrives with a key: no record for the key -> (proceed, id of a new
\* placeholder order, PENDING, without user and items) with the record
\* key -> fingerprint -> placeholder id added to the session; record with the
\* same fingerprint -> (replay, bound order id), nothing written; record with
\* another fingerprint -> (conflict, bound order id), nothing written.  The
\* order of a proceeding request keeps the placeholder's id, and that id is
\* the one returned and bound to the key when the request commits.
C12_ThreeWay ==
    [][\A p \in Workers :
         /\ (Arrives(p) /\ wk'[p].key # "") =>
               LET k == wk'[p].key
                   h == stable_request_hash(wk'[p].req)
                   d == upsert_idempotency(idempotency_keys, k, h, next_id)
               IN  /\ wk'[p].decision = d.decision
                   /\ UNCHANGED Tables
                   /\ k \notin DOMAIN idempotency_keys =>
                         /\ d = [decision |-> "proceed", order_id |-> next_id]
                         /\ next_id \notin DOMAIN orders
                         /\ wk'[p].order = [id |-> next_id, user_id |-> "",
                                            status |-> "PENDING", total_amount |-> 0]
                         /\ wk'[p].created_items = <<>>
                         /\ wk'[p].key_state = "pending"
                         /\ next_id' = next_id + 1
                   /\ (k \in DOMAIN idempotency_keys
                         /\ idempotency_keys[k].request_hash = h) =>
                         /\ d = [decision |-> "replay",
                                 order_id |-> idempotency_keys[k].order_id]
                         /\ wk'[p].order.id = d.order_id
                         /\ wk'[p].key_state = "none"
                         /\ next_id' = next_id
                   /\ (k \in DOMAIN idempotency_keys
                         /\ idempotency_keys[k].request_hash # h) =>
                         /\ d = [decision |-> "conflict",
                                 order_id |-> idempotency_keys[k].order_id]
                         /\ wk'[p].pc = "raised"
                         /\ wk'[p].key_state = "none"
                         /\ next_id' = next_id
         /\ (wk[p].decision = "proceed" /\ wk'[p].pc # "closed") =>
               wk'[p].order.id = wk[p].order.id
         /\ ( /\ wk[p].decision = "proceed" /\ wk[p].pc = "returned"
              /\ wk'[p].pc = "done" /\ wk'[p].result.code = 201 ) =>
               /\ wk'[p].result.orderId = wk[p].order.id
               /\ idempotency_keys'[wk[p].key] =
                     [order_id |-> wk[p].order.id,
                      request_hash |-> stable_request_hash(wk[p].req)]
               /\ orders'[wk[p].order.id].status = "CONFIRMED"
      ]_vars

C12_Witness ==
    \E p \in Workers :
        /\ wk[p].pc = "done" /\ wk[p].decision = "proceed"
        /\ wk[p].result.code = 201
        /\ Len(wk[p].req.items) = 2
        /\ idempotency_keys[wk[p].key] =
              [order_id |-> wk[p].result.orderId,
               request_hash |-> stable_request_hash(wk[p].req)]
        /\ Cardinality(DOMAIN orders) = 2

\* C13: idempotency records are write-once.  The table holds one record per
\* key, and a record that exists is never removed and never changed: its
\* fingerprint and its order id stay what they were, whichever requests
\* come later and however they interleave.
C13_WriteOnce ==
    [][\A k \in DOMAIN idempotency_keys :
          /\ k \in DOMAIN idempotency_keys'
          /\ idempotency_keys'[k] = idempotency_keys[k]
      ]_vars

\* a later request with the same key and another fingerprint has committed
\* nothing over the record
C13_Witness ==
    /\ "abc" \in DOMAIN idempotency_keys
    /\ \E p \in Workers :
          /\ wk[p].pc = "done" /\ wk[p].key = "abc"
          /\ wk[p].decision = "proceed"
          /\ stable_request_hash(wk[p].req) # idempotency_keys["abc"].request_hash
          /\ wk[p].order.id # idempotency_keys["abc"].order_id

\* s and t hold the same lines the same number of times
SameBag(s, t) ==
    /\ Len(s) = Len(t)
    /\ \A x \in OrderItemRequest :
          Cardinality({i \in 1..Len(s) : s[i] = x})
            = Cardinality({i \in 1..Len(t) : t[i] = x})

\* C14 as stated: the fingerprint of a request is the fingerprint of every
\* request of the same user whose item list is a permutation of its own, and
\* differs from the fingerprint of every request with another user or
\* another multiset of lines.
C14_Claim ==
    \A p \in Workers :
        wk[p].pc \notin {"idle", "closed"} =>
            \A r \in CreateOrderRequest :
                (r.userId = wk[p].req.userId /\ SameBag(r.items, wk[p].req.items))
                   <=> stable_request_hash(r) = stable_request_hash(wk[p].req)

ClientError == {"400", "404", "409"}
SameCall(a, b) == a.op = b.op /\ a.idx = b.idx

\* C15: the executor never retries a 4xx answer.  An attempt answered with a
\* 4xx status is the last attempt of its call and no backoff sleep follows it.
C15_No4xxRetry ==
    \A p \in Workers :
        \A j \in 1..Len(calls[p]) :
            calls[p][j].outcome \in ClientError =>
                /\ calls[p][j].sleep = 0
                /\ \A i \in (j + 1)..Len(calls[p]) : ~SameCall(calls[p][i], calls[p][j])
                /\ (wk[p].pc \in {"precheck", "reserve", "compensate"}
                      /\ j = Len(calls[p])) => wk[p].attempt = 0

\* a 4xx on the second attempt of a reservation, with a retry left, and the
\* workflow has gone on to the next call
C15_Witness ==
    \E p \in Workers :
        /\ retry_attempts = 2
        /\ Len(calls[p]) >= 4
        /\ \E j \in 2..(Len(calls[p]) - 1) :
              /\ calls[p][j].op = "reserve"
              /\ calls[p][j].attempt = 1
              /\ calls[p][j].outcome = "400"
              /\ calls[p][j - 1].outcome \in Retryable
              /\ calls[p][j + 1].op = "compensate"

\* the attempt is the last one of a call whose every attempt failed
Exhausted(c) == c.outcome \in Retryable /\ c.attempt = retry_attempts

\* C16: retry budget of one call of the executor.  Attempts are numbered from
\* 0 to at most retry_attempts, so a call makes at most retry_attempts + 1
\* HTTP attempts; an attempt after the first follows a network failure or 5xx
\* of the same call; the call ends at the first answer that is not one; and
\* it raises InventoryError exactly when its last allowed attempt failed too.
C16_RetryBudget ==
    \A p \in Workers :
        LET c == calls[p]
            n == Len(c)
        IN  /\ \A j \in 1..n :
                  /\ c[j].attempt \in 0..retry_attempts
                  /\ c[j].attempt > 0 =>
                        /\ j > 1
                        /\ SameCall(c[j - 1], c[j])
                        /\ c[j - 1].attempt = c[j].attempt - 1
                        /\ c[j - 1].outcome \in Retryable
                  /\ (j < n /\ c[j].outcome \in Retryable /\ ~Exhausted(c[j])) =>
                        SameCall(c[j + 1], c[j]) /\ c[j + 1].attempt = c[j].attempt + 1
                  /\ (j < n /\ (c[j].outcome \notin Retryable \/ Exhausted(c[j]))) =>
                        c[j + 1].attempt = 0 /\ ~SameCall(c[j + 1], c[j])
            /\ (wk[p].pc = "raised" /\ wk[p].exc = Exc("InventoryError", "precheck"))
                  <=> (wk[p].pc = "raised" /\ n > 0 /\ c[n].op = "get_inventory"
                         /\ Exhausted(c[n]))
            /\ wk[p].trigger = Exc("InventoryError", "reserve")
                  <=> \E j \in 1..n : c[j].op = "reserve" /\ Exhausted(c[j])

\* three failing attempts with two retries configured, then InventoryError
C16_Witness ==
    \E p \in Workers :
        /\ retry_attempts = 2
        /\ wk[p].trigger = Exc("InventoryError", "reserve")
        /\ Len(CallsOf(p, "reserve")) = 3
        /\ \A j \in 1..3 : CallsOf(p, "reserve")[j].outcome \in Retryable

C18_NotFound ==
    \A p \in Workers :
        LET c == calls[p]
            n == Len(c)
        IN  \A j \in 1..n :
                (c[j].op = "get_inventory" /\ c[j].outcome = "404") =>
                    /\ c[j].sleep = 0
                    /\ \A i \in (j + 1)..n : ~SameCall(c[i], c[j])
                    /\ c[j].attempt = 0 =>
                          Cardinality({i \in 1..n : SameCall(c[i], c[j])}) = 1
                    /\ j = n =>
                          /\ wk[p].pc \in {"precheck", "raised", "done"}
                          /\ wk[p].exc.type \notin {"HTTPStatusError", "InventoryError"}
                          /\ wk[p].failures # <<>>
                          /\ wk[p].failures[Len(wk[p].failures)] =
                                [bookId |-> wk[p].req.items[c[j].idx].bookId,
                                 available |-> 0,
                                 requested |-> wk[p].req.items[c[j].idx].qty]

\* one request to the upstream, answered 404: the product counts as out of stock
C18_Witness ==
    \E p \in Workers :
        /\ Len(calls[p]) = 1
        /\ calls[p][1].op = "get_inventory" /\ calls[p][1].outcome = "404"
        /\ wk[p].pc = "raised" /\ wk[p].exc.type = "insufficient_stock"
        /\ retry_attempts > 0

\* C19: every failure of adjust is an InventoryError.  A reservation that
\* failed entered the except-block with an InventoryError, whether the remote
\* answered 4xx or the retries ran out on 5xx or network failures, and no
\* compensating adjust let any other exception type escape.
C19_Claim ==
    \A p \in Workers :
        /\ wk[p].trigger.site = "reserve" => wk[p].trigger.type = "InventoryError"
        /\ wk[p].exc.site = "compensate" => wk[p].exc.type = "InventoryError"

\* C20: a request with an empty item list fails with the validation error
\* before any I/O: when it is rejected there is no order row and no
\* idempotency record in the session and no inventory call has been made,
\* with and without an idempotency key.
C20_Claim ==
    \A p \in Workers :
        (wk[p].pc \notin {"idle", "closed"} /\ wk[p].req.items = <<>>) =>
            /\ wk[p].exc.type = "validation_error"
            /\ wk[p].order = NoOrder
            /\ wk[p].key_state = "none"
            /\ calls[p] = <<>>

\* positions of the log of worker p that are attempts of operation op
Positions(p, op) == {j \in 1..Len(calls[p]) : calls[p][j].op = op}

\* C21: reservations are sequential and in request order.  Every reservation
\* attempt follows all availability queries and precedes all compensations,
\* changes the quantity by minus the quantity of its line and carries the
\* order id as audit note; the first one is for line 1, and the attempt that
\* follows another is either the retry of a retryable failure of the same
\* line or the first attempt for the next line after an answer 200, so that
\* nothing is reserved after a reservation has failed.
C21_Sequential ==
    \A p \in Workers :
        LET c == calls[p]
            R == Positions(p, "reserve")
        IN  \A j \in R :
                /\ c[j].idx \in Lines(p)
                /\ c[j].change = -wk[p].req.items[c[j].idx].qty
                /\ c[j].notes = <<"order", wk[p].order.id>>
                /\ \A i \in Positions(p, "get_inventory") : i < j
                /\ \A i \in Positions(p, "compensate") : j < i
                /\ (j - 1 \notin R) => c[j].idx = 1 /\ c[j].attempt = 0
                /\ (j - 1 \in R) =>
                      \/ /\ c[j].idx = c[j - 1].idx
                         /\ c[j].attempt = c[j - 1].attempt + 1
                         /\ c[j - 1].outcome \in Retryable
                      \/ /\ c[j].idx = c[j - 1].idx + 1
                         /\ c[j].attempt = 0
                         /\ c[j - 1].outcome = "200"

\* a two-line order whose first reservation was retried once
C21_Witness ==
    \E p \in Workers :
        LET rs == CallsOf(p, "reserve")
        IN  /\ Len(rs) = 3
            /\ rs[1].idx = 1 /\ rs[1].outcome = "503"
            /\ rs[2].idx = 1 /\ rs[2].outcome = "200"
            /\ rs[3].idx = 2 /\ rs[3].outcome = "200"
            /\ wk[p].pc = "done" /\ wk[p].result.code = 201

\* the order.created records of order o in the committed outbox
CreatedEvents(o) ==
    {e \in outbox_events : e.type = "order.created" /\ e.orderId = o}

\* C22: outbox exactly-once.  In every committed state each CONFIRMED order
\* has exactly one order.created record and every other order has none; every
\* record belongs to a committed order that has its items and carries that
\* order's user and total, so that no record exists without its order and no
\* replayed, conflicting or failed request has left one.
C22_OutboxOnce ==
    /\ \A o \in DOMAIN orders :
          Cardinality(CreatedEvents(o)) =
              IF orders[o].status = "CONFIRMED" THEN 1 ELSE 0
    /\ \A e \in outbox_events :
          /\ e.type = "order.created"
          /\ e.orderId \in DOMAIN orders
          /\ e.userId = orders[e.orderId].user_id
          /\ e.total = orders[e.orderId].total_amount
          /\ Len(e.items) = Cardinality({it \in order_items : it.order_id = e.orderId})

\* one order is committed with its record and a replay of its request has
\* been answered
C22_Witness ==
    /\ Cardinality(DOMAIN orders) = 1
    /\ Cardinality(outbox_events) = 1
    /\ \E p \in Workers :
          /\ wk[p].pc = "done"
          /\ wk[p].decision = "replay"
          /\ wk[p].result.code = 201

\* sum of the line totals of a set of order item rows
RECURSIVE SumLineTotals(_)
SumLineTotals(S) ==
    IF S = {} THEN 0
    ELSE LET x == CHOOSE y \in S : TRUE
         IN  x.line_total + SumLineTotals(S \ {x})

ItemsOf(o) == {it \in order_items : it.order_id = o}

\* C23: for every CONFIRMED order the stored total is the sum of the stored
\* line totals of its items, and each line total is quantity x unit price
\* rounded to two decimal places; the same holds for the order and the items
\* in the session when create_order returns them.
C23_TotalIsSum ==
    /\ \A o \in DOMAIN orders :
          orders[o].status = "CONFIRMED" =>
              /\ orders[o].total_amount = SumLineTotals(ItemsOf(o))
              /\ \A it \in ItemsOf(o) :
                    it.line_total = quantize(it.unit_price * it.quantity)
    /\ \A p \in Workers :
          (wk[p].pc = "returned" /\ wk[p].decision # "replay") =>
              /\ wk[p].order.status = "CONFIRMED"
              /\ wk[p].order.total_amount =
                    SumSeq([i \in 1..Len(wk[p].created_items) |->
                               wk[p].created_items[i].line_total])

\* a committed order of two lines, two units and one unit
C23_Witness ==
    \E o \in DOMAIN orders :
        /\ orders[o].status = "CONFIRMED"
        /\ Cardinality(ItemsOf(o)) = 2
        /\ \E it \in ItemsOf(o) : it.quantity = 2
        /\ orders[o].total_amount = 22500

\* rounding of a non-negative amount in mills to cents, halves upwards
HalfUp(m) == ((m + 5) \div 10) * 10

\* C24 as stated: calculate_totals returns the exact sum of unit price x
\* quantity over all pairs, rounded once to two decimal places half-up: a sum
\* exactly halfway between two cents gives the upper cent.
C24_Claim ==
    result # NoTotal =>
        result = HalfUp(SumSeq([i \in 1..Len(pairs) |->
                                  Mills(pairs[i][1]) * pairs[i][2]]))

\* C25 as stated: the status of an order follows PENDING -> CONFIRMED or
\* PENDING -> CANCELLED only.  The order of a request is created PENDING (a
\* replay loads the committed order instead), and while the request is
\* handled its status only changes from PENDING, to CONFIRMED or CANCELLED:
\* an order that has been set to CONFIRMED is never set to CANCELLED, nor the
\* reverse.  Checked on the requests that met no upstream fault.
C25_Claim ==
    [][\A p \in Workers :
         LET a == wk[p].order.status
             b == wk'[p].order.status
         IN  (wk'[p].pc # "closed" /\ a # b /\ nfaults' = 0) =>
                 \/ a = "NONE" /\ b = "PENDING"
                 \/ a = "NONE" /\ wk'[p].decision = "replay"
                 \/ a = "PENDING" /\ b \in {"CONFIRMED", "CANCELLED"}]_vars

\* the request of worker p met a persistence failure after all its
\* reservations had succeeded: the flush of the order, its items and the
\* idempotency record failed, or the commit that writes the outbox record did
PersistenceFailure(p) ==
    /\ Len(wk[p].created_items) = Len(wk[p].req.items)
    /\ wk[p].req.items # <<>>
    /\ \/ wk[p].trigger.site = "flush"
       \/ wk[p].exc.site = "commit"

\* C26 as stated: a persistence failure after all reservations have succeeded
\* triggers compensation.  With a healthy upstream, once the request has been
\* answered every line has been given back by an adjust of +qty, the stock of
\* every product is at its level before the request, no order.created record
\* of the order exists and the caller got an error.
C26_Claim ==
    \A p \in Workers :
        (wk[p].pc = "done" /\ PersistenceFailure(p) /\ nfaults = 0) =>
            /\ \A i \in Lines(p) :
                  \E j \in Positions(p, "compensate") :
                      /\ calls[p][j].idx = i
                      /\ calls[p][j].change = wk[p].req.items[i].qty
                      /\ calls[p][j].outcome = "200"
            /\ \A b \in DOMAIN stock : stock[b] = pre[p][b]
            /\ CreatedEvents(wk[p].order.id) = {}
            /\ wk[p].result.code \notin {0, 201}

\* the last availability query of worker p failed after its retries
QueryFailed(p) ==
    /\ wk[p].exc = Exc("InventoryError", "precheck")
    /\ calls[p] # <<>>
    /\ Exhausted(calls[p][Len(calls[p])])

\* C27: an upstream failure during the pre-check does not trigger
\* compensation.  When an availability query has failed after its retries,
\* create_order has issued no adjust call of either sign, the stock of every
\* product is as it was when the request arrived, the except-block was not
\* entered, and the caller gets the query failure as an upstream error.
C27_NoCompensation ==
    \A p \in Workers :
        QueryFailed(p) =>
            /\ \A j \in 1..Len(calls[p]) : calls[p][j].op = "get_inventory"
            /\ wk[p].trigger = NoExc
            /\ wk[p].order.status # "CANCELLED"
            /\ wk[p].pc \in {"raised", "done"}
            /\ stock = pre[p]
            /\ wk[p].pc = "done" =>
                  /\ wk[p].result.code = 502
                  /\ wk[p].result.error = "InventoryError"

\* the query failed three times, the two retries included
C27_Witness ==
    \E p \in Workers :
        /\ QueryFailed(p)
        /\ wk[p].pc = "done"
        /\ Len(calls[p]) = 3
        /\ calls[p][3].attempt = 2
        /\ retry_attempts = 2

NoSideEffects == {"validation_error", "idempotency_conflict", "insufficient_stock"}

\* C28: the failures without side effects leave the committed datastore
\* unchanged.  No step of a request up to the end of its pre-check changes
\* the committed orders, order items, idempotency records or outbox records,
\* and when a request that raised the validation error, the idempotency
\* conflict or the insufficient-stock error is answered, the four tables are
\* still the same: its placeholder order is not among the orders and, if it
\* came with a new key, no record for that key exists.
C28_Unchanged ==
    [][\A p \in Workers :
         /\ (wk[p].pc \in {"idle", "precheck"} /\ wk'[p] # wk[p]) =>
               Tables' = Tables
         /\ ( /\ wk[p].pc = "raised" /\ wk'[p].pc = "done"
              /\ wk[p].exc.type \in NoSideEffects ) =>
               /\ Tables' = Tables
               /\ wk'[p].result.code \in {400, 409}
               /\ NewOrder(p) => wk[p].order.id \notin DOMAIN orders'
               /\ wk[p].decision = "proceed" =>
                     wk[p].key \notin DOMAIN idempotency_keys']_vars

\* a request with a new key was refused for insufficient stock after an
\* order had been committed, and neither its placeholder nor its key is left
C28_Witness ==
    \E p \in Workers :
        /\ wk[p].pc = "done"
        /\ wk[p].exc.type = "insufficient_stock"
        /\ wk[p].decision = "proceed" /\ wk[p].key = "abc"
        /\ "abc" \notin DOMAIN idempotency_keys
        /\ Cardinality(DOMAIN orders) = 1
        /\ wk[p].order.id \notin DOMAIN orders

\* what the pre-check finds for line i of the request of worker p when the
\* upstream holds the quantities s
Finding(p, s, i) ==
    [bookId |-> wk[p].req.items[i].bookId,
     available |-> Available(s, wk[p].req.items[i].bookId),
     requested |-> wk[p].req.items[i].qty]

\* C29: the insufficient-stock error is aggregated.  When a request is
\* refused for insufficient stock, every line of the request has been
\* queried, in request order, and the error lists exactly the lines that ask
\* for more than is available, in request order, each with the product, the
\* available and the requested quantity.
C29_Aggregated ==
    \A p \in Workers :
        wk[p].exc.type = "insufficient_stock" =>
            /\ \A i \in Lines(p) :
                  \E j \in Positions(p, "get_inventory") : calls[p][j].idx = i
            /\ \A i, j \in Positions(p, "get_inventory") :
                  i < j => calls[p][i].idx <= calls[p][j].idx
            /\ Positions(p, "reserve") \cup Positions(p, "compensate") = {}
            /\ wk[p].failures # <<>>
            /\ wk[p].failures =
                  SelectSeq([i \in Lines(p) |-> Finding(p, pre[p], i)],
                            LAMBDA f : f.requested > f.available)

\* the first line of a two-line request falls short, the second is still
\* queried and does not
C29_Witness ==
    \E p \in Workers :
        /\ wk[p].pc = "done" /\ wk[p].exc.type = "insufficient_stock"
        /\ Len(wk[p].req.items) = 2
        /\ Len(wk[p].failures) = 1
        /\ wk[p].failures[1] = Finding(p, pre[p], 1)
        /\ Len(calls[p]) = 2
        /\ wk[p].result.code = 409

\* C30: each outcome of POST /orders has its response code.  A request that
\* has been answered got 201 exactly when nothing was raised, 400 for the
\* validation error, 409 for the idempotency conflict and for insufficient
\* stock, 502 for a failure of the inventory service; every failure is
\* reported with a code of 400 or more.
C30_Codes ==
    \A p \in Workers :
        wk[p].pc = "done" =>
            LET code == wk[p].result.code
                etype == wk[p].exc.type
            IN  /\ code \in {201, 400, 409, 502}
                /\ code = 201 <=> wk[p].exc = NoExc
                /\ etype = "validation_error" => code = 400
                /\ etype = "idempotency_conflict" => code = 409
                /\ etype = "insufficient_stock" => code = 409
                /\ etype \in {"InventoryError", "HTTPStatusError"} => code = 502
                /\ wk[p].exc # NoExc => code >= 400 /\ wk[p].result.orderId = 0

\* a request whose reservation failed on the upstream got 502, after an
\* earlier request had been answered
C30_Witness ==
    \E p \in Workers :
        /\ wk[p].pc = "done"
        /\ wk[p].exc = Exc("InventoryError", "reserve")
        /\ wk[p].result.code = 502
        /\ \E q \in Workers : wk[q].pc = "closed"

\* C31: every order id returned by a successful POST /orders is retrievable.
\* A GET for an id that a 201 response has carried is answered 200 with that
\* id and the status, total and items of the response; a GET for an id that
\* no committed order has is answered 404.
C31_Retrievable ==
    [][\A id \in 1..MaxGetId :
         get_order(id) =>
             LET g == http'.got
             IN  /\ g.asked = id
                 /\ g.code \in {200, 404}
                 /\ id \in DOMAIN http.posted =>
                       /\ g.code = 200
                       /\ g.orderId = id
                       /\ g.status = http.posted[id].status
                       /\ g.total = http.posted[id].total
                       /\ g.items = http.posted[id].items
                 /\ id \notin DOMAIN orders => g.code = 404]_vars

\* a two-line order is looked up after its request and a later one are over
C31_Witness ==
    /\ http.got.code = 200
    /\ http.got.asked \in DOMAIN http.posted
    /\ http.got.status = "CONFIRMED"
    /\ Cardinality(http.got.items) = 2
    /\ http.got.total = http.posted[http.got.asked].total
    /\ \A p \in Workers : wk[p].pc = "closed"

\* the quantity of product b in the orders the two requests got CONFIRMED
ConfirmedDemand(b) ==
    SumSeq([i \in 1..2 |->
              LET p == IF i = 1 THEN "w1" ELSE "w2"
              IN  IF wk[p].result.code = 201 /\ wk[p].decision # "replay"
                  THEN Demand(wk[p].req.items, b)
                  ELSE 0])

\* C32 as stated: stock conservation under concurrency.  Two requests with
\* different keys or without key overlap on a healthy upstream that refuses an
\* adjustment below zero; once both have been answered, every compensating
\* adjust having succeeded, the stock of each product is its initial stock
\* minus the quantities of the CONFIRMED orders, which do not exceed the
\* initial stock.
C32_Claim ==
    ( /\ wk["w1"].pc = "done" /\ wk["w2"].pc = "done"
      /\ wk["w1"].key = "" \/ wk["w2"].key # wk["w1"].key
      /\ NoFaultsYet
      /\ CompensationsOk("w1") /\ CompensationsOk("w2") )
    => \A b \in DOMAIN stock :
          /\ stock[b] = pre["w1"][b] - ConfirmedDemand(b)
          /\ ConfirmedDemand(b) <= pre["w1"][b]
          /\ stock[b] <= pre["w1"][b]

\* C33 as stated: pre-check soundness.  With a healthy upstream and datastore
\* and no concurrent request, a request that has passed the pre-check has no
\* reservation refused for lack of stock and ends CONFIRMED, also when it
\* lists the same product on several lines.
C33_Claim ==
    \A p \in Workers :
        ( /\ wk[p].pc \in {"reserve", "finalize", "compensate", "cancel",
                           "returned", "raised", "done"}
          /\ NewOrder(p)
          /\ wk[p].exc.site \notin {"validate", "precheck"}
          /\ NoFaultsYet )
        => /\ \A j \in Positions(p, "reserve") : calls[p][j].outcome # "409"
           /\ wk[p].trigger = NoExc
           /\ wk[p].pc \in {"returned", "done"} => wk[p].order.status = "CONFIRMED"

\* C34 as stated: a retried adjustment is applied at most once upstream.
\* When all the reservation calls of a request have returned successfully,
\* the stock of every product has gone down by exactly the quantity the
\* request asked for, also when an earlier attempt of a call was applied by
\* the upstream and its response was lost.
C34_Claim ==
    \A p \in Workers :
        ( /\ wk[p].pc \in {"finalize", "returned"}
          /\ NewOrder(p)
          /\ wk[p].trigger = NoExc )
        => \A b \in DOMAIN stock :
              stock[b] = pre[p][b] - Demand(wk[p].req.items, b)

HealthyCalls(p) ==
    \A j \in 1..Len(calls[p]) : calls[p][j].outcome \notin {"400", "503", "timeout"}

\* the first request failed for insufficient stock or on the upstream, and
\* the second one came later with the same key and the same content
RetriedAfterFailure ==
    /\ wk["w1"].pc = "done"
    /\ wk["w1"].exc.type \in {"insufficient_stock", "InventoryError", "HTTPStatusError"}
    /\ wk["w1"].exc.site \in {"precheck", "reserve"}
    /\ wk["w2"].pc \notin {"idle", "closed"}
    /\ wk["w2"].key = wk["w1"].key
    /\ wk["w2"].req = wk["w1"].req

\* C36 as stated: retry after failure.  The later request is arbitrated as
\* proceed, and when the stock is sufficient and the upstream and the
\* datastore are healthy while it runs, it ends CONFIRMED with the stock of
\* the product down by the requested quantity exactly once for the key: once
\* since the later request arrived and once since the first one did.
C36_Claim ==
    RetriedAfterFailure =>
        /\ wk["w2"].decision = "proceed"
        /\ ( /\ wk["w2"].pc = "done"
             /\ HealthyCalls("w2") /\ ndbfaults = 0
             /\ \A b \in Books :
                   Demand(wk["w2"].req.items, b) <= Available(pre["w2"], b) )
           => /\ wk["w2"].result.code = 201
              /\ wk["w2"].result.status = "CONFIRMED"
              /\ \A b \in DOMAIN stock :
                    /\ stock[b] = pre["w2"][b] - Demand(wk["w2"].req.items, b)
                    /\ stock[b] = pre["w1"][b] - Demand(wk["w2"].req.items, b)

\* the attempt at position j of the log of worker p ended its call
Ended(p, j) ==
    calls[p][j].outcome \notin Retryable \/ Exhausted(calls[p][j])

\* C37: the outcomes of the executor are closed.  A call of _request ends
\* either by returning a response with a status below 500 or by raising
\* InventoryError: a call whose last attempt got a 5xx or a network failure
\* is never taken for a returned response (no order item is created for the
\* line, the query does not continue) and what the caller sees is
\* InventoryError, swallowed in the compensation; an exception that leaves
\* create_order from an inventory call is InventoryError, or the
\* HTTPStatusError the caller raised itself on a returned 4xx.
C37_Closed ==
    \A p \in Workers :
        LET c == calls[p]
            n == Len(c)
        IN  /\ \A j \in 1..n :
                  (Ended(p, j) /\ c[j].outcome \notin Retryable) =>
                      c[j].outcome \in {"200", "400", "404", "409"}
            /\ \A j \in 1..n :
                  (Ended(p, j) /\ c[j].outcome \in Retryable) =>
                      /\ c[j].op = "get_inventory" =>
                            /\ j = n
                            /\ wk[p].pc \in {"raised", "done"}
                            /\ wk[p].exc = Exc("InventoryError", "precheck")
                      /\ c[j].op = "reserve" =>
                            /\ wk[p].trigger = Exc("InventoryError", "reserve")
                            /\ Len(wk[p].created_items) < c[j].idx
                            /\ \A i \in (j + 1)..n : c[i].op = "compensate"
                      /\ c[j].op = "compensate" =>
                            wk[p].pc \in {"compensate", "cancel", "raised", "done"}
            /\ wk[p].exc.site \in {"precheck", "reserve", "compensate"} =>
                  /\ wk[p].exc.type \in
                        {"InventoryError", "HTTPStatusError", "insufficient_stock"}
                  /\ wk[p].exc.type = "HTTPStatusError" =>
                        \E j \in 1..n : c[j].outcome \in {"400", "404", "409"}

\* without retries, a reservation that timed out raised InventoryError
C37_Witness ==
    \E p \in Workers :
        /\ retry_attempts = 0
        /\ Len(calls[p]) = 2
        /\ calls[p][2].op = "reserve" /\ calls[p][2].outcome = "timeout"
        /\ wk[p].trigger = Exc("InventoryError", "reserve")
        /\ wk[p].pc = "compensate"

\* the attempts of worker p for operation op on line i
Attempts(p, op, i) == {j \in Positions(p, op) : calls[p][j].idx = i}

\* the calls of create_order stay within their bounds: each operation is
\* called for lines of the request only, once per line, with at most
\* retry_attempts + 1 attempts
CallBounds(p) ==
    \A op \in {"get_inventory", "reserve", "compensate"} :
        /\ \A j \in Positions(p, op) : calls[p][j].idx \in Lines(p)
        /\ \A i \in Lines(p) :
              /\ Cardinality(Attempts(p, op, i)) <= retry_attempts + 1
              /\ \A j, k \in Attempts(p, op, i) :
                    j < k => calls[p][j].attempt < calls[p][k].attempt

\* C38: create_order terminates whatever the upstream does.  For a request
\* of n lines and N retries it makes at most n availability queries, n
\* reservation calls and n compensation calls of at most N + 1 attempts
\* each, and once it has started it returns or raises.
C38_Terminates ==
    /\ [](\A p \in Workers : CallBounds(p))
    /\ \A p \in Workers :
          (wk[p].pc = "precheck") ~> (wk[p].pc \in {"returned", "raised"})

\* two lines, two retries each: three attempts at each of the two queries
\* would exceed the faults available, so three at the first reservation
C38_Witness ==
    \E p \in Workers :
        /\ retry_attempts = 2
        /\ Len(wk[p].req.items) = 2
        /\ Cardinality(Attempts(p, "reserve", 1)) = 3
        /\ Cardinality(Attempts(p, "compensate", 2)) = 1
        /\ wk[p].pc = "raised"

\* C39: an unknown product is treated as having no stock.  When the
\* availability query for a line has been answered not-found, no reservation
\* and no compensation is ever made for the request, which does not get past
\* the pre-check; the line is in the list of shortfalls with available 0 as
\* soon as its query has returned, and unless a later query fails the
\* request ends with the insufficient-stock error listing it.
C39_UnknownIsZero ==
    \A p \in Workers :
        \A j \in Positions(p, "get_inventory") :
            calls[p][j].outcome = "404" =>
                LET i == calls[p][j].idx
                    line == wk[p].req.items[i]
                IN  /\ Positions(p, "reserve") = {}
                    /\ Positions(p, "compensate") = {}
                    /\ wk[p].pc \in {"precheck", "raised", "done"}
                    /\ wk[p].trigger = NoExc
                    /\ \E k \in 1..Len(wk[p].failures) :
                          wk[p].failures[k] = [bookId |-> line.bookId,
                                               available |-> 0,
                                               requested |-> line.qty]
                    /\ (wk[p].pc \in {"raised", "done"} /\ HealthyCalls(p)) =>
                          wk[p].exc = Exc("insufficient_stock", "precheck")
                    /\ (wk[p].pc = "done" /\ HealthyCalls(p)) =>
                          wk[p].result.code = 409

\* the second line names a product the upstream does not know, the first
\* one is in stock: the request is refused and nothing was reserved
C39_Witness ==
    \E p \in Workers :
        /\ wk[p].pc = "done" /\ wk[p].result.code = 409
        /\ Len(calls[p]) = 2
        /\ calls[p][1].outcome = "200" /\ calls[p][2].outcome = "404"
        /\ wk[p].failures = <<[bookId |-> wk[p].req.items[2].bookId,
                               available |-> 0,
                               requested |-> wk[p].req.items[2].qty]>>
        /\ stock = pre[p]

====
